---- MODULE Spec2Model ----
(***************************************************************************)
(* Model of the redirect engine of yari (content/redirect.js, lines        *)
(* 550-978 of src/client/src/flaws/index.tsx): validation of redirect      *)
(* pairs, flattening of redirect chains (shortCuts), merging updates into  *)
(* a locale's _redirects.txt (add), and the module-level resolution cache  *)
(* (load / resolve).                                                       *)
(*                                                                         *)
(* A JavaScript string is a sequence of one-character strings, so that     *)
(* toLowerCase, startsWith, includes, split, trim and the < and >          *)
(* comparisons are computed character by character as the code does.       *)
(*                                                                         *)
(* The alphabet of these strings is the ASCII letters without x and X,     *)
(* and tab, newline, space, "#", "-", ".", "/" and ":". Without x no host  *)
(* label starts with "xn--": the URL parser decodes such a label as        *)
(* Punycode and validates the decoded text against the Unicode tables of   *)
(* UTS #46, data that the model does not carry.                            *)
(***************************************************************************)
EXTENDS Integers, Sequences, FiniteSets, TLC

(***************************************************************************)
(* Strings                                                                 *)
(***************************************************************************)

UpperChars == <<"A","B","C","D","E","F","G","H","I","J","K","L","M",
                "N","O","P","Q","R","S","T","U","V","W","Y","Z">>

LowerChars == <<"a","b","c","d","e","f","g","h","i","j","k","l","m",
                "n","o","p","q","r","s","t","u","v","w","y","z">>

SymbolChars == <<"\t", "\n", " ", "#", "-", ".", "/", ":">>

\* UTF-16 code units of SymbolChars, in the same order.
SymbolCodes == <<9, 10, 32, 35, 45, 46, 47, 58>>

Letters == 1..25

Chars == {UpperChars[i] : i \in Letters} \cup {LowerChars[i] : i \in Letters}
            \cup {SymbolChars[i] : i \in DOMAIN SymbolChars}

\* String.prototype.toLowerCase on one character.
LowerOf == [c \in Chars |->
              IF \E i \in Letters : UpperChars[i] = c
                THEN LowerChars[CHOOSE i \in Letters : UpperChars[i] = c]
                ELSE c]

\* The UTF-16 code unit of a character: what < and > on strings compare.
\* "A" is 65 and "a" is 97; the letters after W and w come one later, X
\* and x being left out.
CodeOf == [c \in Chars |->
             LET Place(i) == IF i > 23 THEN i + 1 ELSE i
             IN  IF \E i \in Letters : UpperChars[i] = c
                   THEN 64 + Place(CHOOSE i \in Letters : UpperChars[i] = c)
                 ELSE IF \E i \in Letters : LowerChars[i] = c
                   THEN 96 + Place(CHOOSE i \in Letters : LowerChars[i] = c)
                 ELSE SymbolCodes[CHOOSE i \in DOMAIN SymbolChars : SymbolChars[i] = c]]

toLowerCase(s) == [i \in 1..Len(s) |-> LowerOf[s[i]]]

\* a < b on JavaScript strings: lexicographic on code units, a proper
\* prefix being smaller.
RECURSIVE StrLess(_, _)
StrLess(a, b) ==
  IF b = <<>> THEN FALSE
  ELSE IF a = <<>> THEN TRUE
  ELSE IF CodeOf[Head(a)] < CodeOf[Head(b)] THEN TRUE
  ELSE IF CodeOf[Head(a)] > CodeOf[Head(b)] THEN FALSE
  ELSE StrLess(Tail(a), Tail(b))

StrGreater(a, b) == StrLess(b, a)

startsWith(s, p) == Len(s) >= Len(p) /\ SubSeq(s, 1, Len(p)) = p

includes(s, p) ==
  \E i \in 1..(Len(s) - Len(p) + 1) : SubSeq(s, i, i + Len(p) - 1) = p

\* s.split(sep) for a one-character separator: the pieces between the
\* separators, empty pieces included.
RECURSIVE SplitFrom(_, _, _, _)
SplitFrom(s, sep, i, piece) ==
  IF i > Len(s) THEN <<piece>>
  ELSE IF s[i] = sep THEN <<piece>> \o SplitFrom(s, sep, i + 1, <<>>)
  ELSE SplitFrom(s, sep, i + 1, Append(piece, s[i]))

split(s, sep) == SplitFrom(s, sep, 1, <<>>)

\* pieces.join(sep)
RECURSIVE join(_, _)
join(pieces, sep) ==
  IF pieces = <<>> THEN <<>>
  ELSE IF Len(pieces) = 1 THEN pieces[1]
  ELSE pieces[1] \o <<sep>> \o join(Tail(pieces), sep)

(***************************************************************************)
(* Map: a JavaScript Map is the sequence of its [key, value] entries in    *)
(* insertion order; setting a key that is present replaces its value in    *)
(* place.                                                                  *)
(***************************************************************************)

MapHas(m, k) == \E i \in DOMAIN m : m[i][1] = k

\* Map.prototype.get; only used where the key is present.
MapGet(m, k) == m[CHOOSE i \in DOMAIN m : m[i][1] = k][2]

MapSet(m, k, v) ==
  IF MapHas(m, k)
    THEN [i \in DOMAIN m |-> IF m[i][1] = k THEN <<k, v>> ELSE m[i]]
    ELSE Append(m, <<k, v>>)

\* new Map(entries)
RECURSIVE MapFrom(_, _)
MapFrom(m, entries) ==
  IF entries = <<>> THEN m
  ELSE MapFrom(MapSet(m, Head(entries)[1], Head(entries)[2]), Tail(entries))

NewMap(entries) == MapFrom(<<>>, entries)

(***************************************************************************)
(* shortCuts: flattening of redirect chains                                *)
(***************************************************************************)

\* A pair is <<from, to>>.
lowerCasePairs(pairs) ==
  [i \in DOMAIN pairs |-> <<toLowerCase(pairs[i][1]), toLowerCase(pairs[i][2])>>]

\* new Map([...pairs.map(([from]) => [from.toLowerCase(), from]),
\*          ...pairs.map(([, to]) => [to.toLowerCase(), to])])
casing(pairs) ==
  NewMap([i \in DOMAIN pairs |-> <<toLowerCase(pairs[i][1]), pairs[i][1]>>]
         \o [i \in DOMAIN pairs |-> <<toLowerCase(pairs[i][2]), pairs[i][2]>>])

\* Directed graph of all redirects: new Map(lowerCasePairs).
dg(pairs) == NewMap(lowerCasePairs(pairs))

\* "if (next)": dg.get(s) is neither undefined nor the empty string.
HasNext(g, s) == MapHas(g, s) /\ MapGet(g, s) # <<>>

InSeq(x, xs) == \E i \in DOMAIN xs : xs[i] = x

\* A plausible slip: the walk follows at most two edges.
RECURSIVE transitTwoHops(_, _, _)
transitTwoHops(g, s, froms) ==
  IF HasNext(g, s)
    THEN LET next == MapGet(g, s)
             path == Append(froms, s)
         IN  IF InSeq(next, path)
               THEN [cycle |-> TRUE, froms |-> path, to |-> next]
             ELSE IF Len(path) >= 2
               THEN [cycle |-> FALSE, froms |-> path, to |-> next]
             ELSE transitTwoHops(g, next, path)
    ELSE [cycle |-> FALSE, froms |-> froms, to |-> s]

\* A plausible slip: a walk that closes a cycle ends there as if at a
\* target.
RECURSIVE transitKeepsCycle(_, _, _)
transitKeepsCycle(g, s, froms) ==
  IF HasNext(g, s)
    THEN LET next == MapGet(g, s)
             path == Append(froms, s)
         IN  IF InSeq(next, path)
               THEN [cycle |-> FALSE, froms |-> path, to |-> next]
               ELSE transitKeepsCycle(g, next, path)
    ELSE [cycle |-> FALSE, froms |-> froms, to |-> s]

\* transit(s, froms): on a cycle the code returns [] (or throws); the cycle
\* is kept here as the record's froms/to for the message, and the caller
\* reads cycle = TRUE as "[]".
RECURSIVE transit(_, _, _)
transit(g, s, froms) ==
  IF HasNext(g, s)
    THEN LET next == MapGet(g, s)
             path == Append(froms, s)
         IN  IF InSeq(next, path)
               THEN [cycle |-> TRUE, froms |-> path, to |-> next]
               ELSE transit(g, next, path)
    ELSE [cycle |-> FALSE, froms |-> froms, to |-> s]

\* for (const from of froms) transitiveDag.set(from, to)
RECURSIVE SetAll(_, _, _)
SetAll(m, froms, to) ==
  IF froms = <<>> THEN m
  ELSE SetAll(MapSet(m, Head(froms), to), Tail(froms), to)

\* for (const [from] of lowerCasePairs) { ... }: the loop from its i-th
\* iteration on. A cycle makes the iteration contribute nothing; with
\* throws it ends the call with an Error.
RECURSIVE transitiveDag(_, _, _, _, _)
transitiveDag(g, lcp, i, throws, dag) ==
  IF i > Len(lcp) THEN [threw |-> FALSE, dag |-> dag]
  ELSE LET r == transit(g, lcp[i][1], <<>>)
       IN  IF r.cycle
             THEN IF throws THEN [threw |-> TRUE, dag |-> dag]
                  ELSE transitiveDag(g, lcp, i + 1, throws, dag)
             ELSE transitiveDag(g, lcp, i + 1, throws, SetAll(dag, r.froms, r.to))

\* The comparator: 1, -1 or 0.
sortTuples(p, q) ==
  IF StrGreater(p[1], q[1]) THEN 1
  ELSE IF StrLess(p[1], q[1]) THEN -1
  ELSE IF StrGreater(p[2], q[2]) THEN 1
  ELSE IF StrLess(p[2], q[2]) THEN -1
  ELSE 0

\* Array.prototype.sort(sortTuples): a stable sort; x goes after the
\* elements that do not compare greater than it.
RECURSIVE InsertSorted(_, _)
InsertSorted(sorted, x) ==
  IF sorted = <<>> THEN <<x>>
  ELSE IF sortTuples(Head(sorted), x) > 0 THEN <<x>> \o sorted
  ELSE <<Head(sorted)>> \o InsertSorted(Tail(sorted), x)

RECURSIVE SortFrom(_, _, _)
SortFrom(xs, i, acc) ==
  IF i > Len(xs) THEN acc ELSE SortFrom(xs, i + 1, InsertSorted(acc, xs[i]))

\* A plausible slip: the pairs are returned in the Map's insertion order.
sortNot(xs) == xs

sort(xs) == SortFrom(xs, 1, <<>>)

\* Restore cases!
mappedPairs(pairs, transitivePairs) ==
  LET c == casing(pairs)
  IN  [i \in DOMAIN transitivePairs |->
         <<MapGet(c, transitivePairs[i][1]), MapGet(c, transitivePairs[i][2])>>]

\* shortCuts(pairs, throws): threw tells whether the call ended with the
\* cycle Error; otherwise pairs is the returned array.
shortCuts(pairs, throws) ==
  LET r == transitiveDag(dg(pairs), lowerCasePairs(pairs), 1, throws, <<>>)
  IN  IF r.threw THEN [threw |-> TRUE, pairs |-> <<>>]
      ELSE [threw |-> FALSE, pairs |-> sort(mappedPairs(pairs, r.dag))]

(***************************************************************************)
(* Collaborators outside redirect.js                                       *)
(***************************************************************************)

\* A value that is not a string: a missing array element, a missing
\* argument.
Undefined == <<"undefined">>

\* The values of the VALID_LOCALES map of ./constants.
VALID_LOCALES == { <<"e","n","-","U","S">>, <<"f","r">> }

VALID_LOCALES_SET == VALID_LOCALES

\* decodePath of ../libs/slug-utils percent-decodes each path segment; it
\* changes a string only where it holds a "%", and no string of this model
\* does.
decodePath(url) == url

\* decodeURI likewise.
decodeURI(url) == url

\* resolveFundamental(url).url of ../libs/fundamental-redirects: the fixed
\* rewrite table; Undefined when it does not rewrite the URL. It rewrites
\* no URL that is already of the form /{valid locale}/docs/...
resolveFundamentalUrl(url) == Undefined

\* slugToFolder of ../libs/slug-utils, on a lowercased slug.
slugToFolder(slug) == slug

\* isArchivedFilePath of ./archive: no archived content is configured.
isArchivedFilePath(relativeFilePath) == FALSE

(***************************************************************************)
(* Validation                                                              *)
(***************************************************************************)

Slash == "/"

DocsInfix == <<"/","d","o","c","s","/">>

DocsWord == <<"d","o","c","s">>

SchemeSeparator == <<":","/","/">>

HttpsProtocol == <<"h","t","t","p","s",":">>

EnUsLower == <<"e","n","-","u","s">>

FORBIDDEN_URL_SYMBOLS == <<"\n", "\t">>

\* array[i] with JavaScript's 0-based index; Undefined past the end.
At(array, i) == IF i + 1 \in DOMAIN array THEN array[i + 1] ELSE Undefined

\* TRUE when checkURLInvalidSymbols returns, FALSE when it throws.
checkURLInvalidSymbols(url) ==
  \A k \in DOMAIN FORBIDDEN_URL_SYMBOLS :
    ~includes(url, <<FORBIDDEN_URL_SYMBOLS[k]>>)

isVanityRedirectURL(url) ==
  url \in {<<Slash>> \o l \o <<Slash>> : l \in VALID_LOCALES}

DotSegment == <<".">>

DotDotSegment == <<".", ".">>

\* path.normalize (posix) on the segments of a path: empty and "." segments
\* go, ".." takes the segment before it away; when there is none, ".."
\* stays in a relative path and goes in an absolute one.
RECURSIVE NormalizeFrom(_, _, _, _)
NormalizeFrom(segments, i, kept, absolute) ==
  IF i > Len(segments) THEN kept
  ELSE IF segments[i] = <<>> \/ segments[i] = DotSegment
    THEN NormalizeFrom(segments, i + 1, kept, absolute)
  ELSE IF segments[i] = DotDotSegment /\ kept # <<>> /\ kept[Len(kept)] # DotDotSegment
    THEN NormalizeFrom(segments, i + 1, SubSeq(kept, 1, Len(kept) - 1), absolute)
  ELSE IF segments[i] = DotDotSegment /\ kept = <<>> /\ absolute
    THEN NormalizeFrom(segments, i + 1, kept, absolute)
  ELSE NormalizeFrom(segments, i + 1, Append(kept, segments[i]), absolute)

\* The folder of path.join(...paths, "index.html") (posix): the arguments
\* that are not empty are joined with "/" and the path is normalized. The
\* path is absolute, and the folder starts with "/", when the first
\* argument that is not empty starts with "/"; <<>> is the folder a
\* relative path starts from.
pathJoin(paths) ==
  LET absolute == \E i \in DOMAIN paths :
                    /\ paths[i] # <<>> /\ paths[i][1] = Slash
                    /\ \A j \in 1..(i - 1) : paths[j] = <<>>
      kept     == NormalizeFrom(split(join(paths, Slash), Slash), 1, <<>>, absolute)
  IN  IF absolute THEN <<Slash>> \o join(kept, Slash) ELSE join(kept, Slash)

\* The folder of relativeFilePath, path.join(locale, slugToFolder(slug),
\* "index.html"), for the locale and slug of the lowercased URL without its
\* fragment. A folder that does not start with "/" is relative to the
\* root: <<>> is the root itself, a folder that starts with ".." lies
\* outside it. Only called on
\* URLs that start with "/", so that locale is a string.
DocumentFolder(url) ==
  LET bareURL == At(split(url, "#"), 0)
      parts   == split(toLowerCase(bareURL), Slash)
      locale  == At(parts, 1)
      slug    == join(SubSeq(parts, 4, Len(parts)), Slash)
  IN  [locale |-> locale, folder |-> pathJoin(<<locale, slugToFolder(slug)>>)]

\* resolveDocumentPath(url) is truthy. ds is the set of document folders
\* that hold an index.html under CONTENT_ROOT; CONTENT_TRANSLATED_ROOT is
\* not set.
resolveDocumentPath(url, ds) ==
  IF isVanityRedirectURL(url) THEN TRUE
  ELSE LET d == DocumentFolder(url)
       IN  IF isArchivedFilePath(d.folder) THEN TRUE
           ELSE IF d.locale # EnUsLower THEN TRUE
           ELSE d.folder \in ds

\* TRUE when validateURLLocale returns, FALSE when it throws.
validateURLLocale(url) ==
  LET parts   == split(url, Slash)
      nothing == At(parts, 0)
      locale  == At(parts, 1)
      docs    == At(parts, 2)
  IN  /\ ~(nothing # <<>> \/ locale = Undefined \/ locale = <<>> \/ docs # DocsWord)
      /\ locale \in VALID_LOCALES

\* The lookup of resolve(url) in the cache.
Lookup(cache, url) ==
  LET fundamentalOrUrl ==
        IF resolveFundamentalUrl(url) # Undefined /\ resolveFundamentalUrl(url) # <<>>
          THEN resolveFundamentalUrl(url) ELSE url
      key == toLowerCase(decodePath(fundamentalOrUrl))
  IN  IF MapHas(cache, key) /\ MapGet(cache, key) # <<>>
        THEN MapGet(cache, key) ELSE fundamentalOrUrl

\* No file at the path: fs.existsSync is false, fs.readFileSync throws.
NoFile == <<"ENOENT">>

\* The outcome of a resolve that was not called.
Unresolved == [threw |-> FALSE, cache |-> <<>>, loaded |-> FALSE, value |-> Undefined]

\* validateFromURL(url, checkResolve) with the Map cache: threw tells
\* whether it throws (an Error of its own or of load, or a TypeError on a
\* url that is not a string), cache is the Map after the call. resolved is
\* the outcome of the resolve(url) of line 631 (resolve is defined with the
\* table loader below, which validates what it reads).
validateFromURL(url, checkResolve, cache, resolved, ds) ==
  IF ~(/\ url # Undefined
       /\ startsWith(url, <<Slash>>)
       /\ includes(url, DocsInfix)
       /\ At(split(url, Slash), 1) \in VALID_LOCALES_SET
       /\ checkURLInvalidSymbols(url)
       /\ validateURLLocale(url)
       /\ ~resolveDocumentPath(url, ds))
    THEN [threw |-> TRUE, cache |-> cache]
  ELSE IF ~checkResolve THEN [threw |-> FALSE, cache |-> cache]
  ELSE [threw |-> resolved.threw \/ resolved.value # url, cache |-> resolved.cache]

(***************************************************************************)
(* new URL(url) without a base: the URL parser of the WHATWG URL Standard *)
(* as Node 12 implements it, on the characters of the model (letters,      *)
(* tab, newline, space, "#", "-", ".", "/", ":"). There is no digit, "@",  *)
(* "?", "\", "%" or "[" to parse:                                          *)
(* a port has no valid character, an authority has no credentials, and a   *)
(* host is a domain of letters, "-" and ".". No label of such a host       *)
(* starts with "xn--" (the alphabet has no x), so that domain-to-ASCII     *)
(* has no Punycode to decode and fails on no host that has no space.       *)
(***************************************************************************)

IsAlpha(c) == \E i \in Letters : c = UpperChars[i] \/ c = LowerChars[i]

\* The characters of a scheme after its first: ASCII alphanumeric, "+",
\* "-" and ".".
IsSchemeChar(c) == IsAlpha(c) \/ c \in {"-", "."}

\* C0 control or space
C0ControlOrSpace == {"\t", "\n", " "}

AsciiTabOrNewline == {"\t", "\n"}

RECURSIVE StripLeading(_, _)
StripLeading(s, set) ==
  IF s # <<>> /\ Head(s) \in set THEN StripLeading(Tail(s), set) ELSE s

RECURSIVE StripTrailing(_, _)
StripTrailing(s, set) ==
  IF s # <<>> /\ s[Len(s)] \in set
    THEN StripTrailing(SubSeq(s, 1, Len(s) - 1), set) ELSE s

\* s without its characters in set.
RECURSIVE Without(_, _)
Without(s, set) ==
  IF s = <<>> THEN <<>>
  ELSE (IF Head(s) \in set THEN <<>> ELSE <<Head(s)>>) \o Without(Tail(s), set)

\* The index of the first character of s that is in set; Len(s) + 1 when
\* there is none.
FirstOf(s, set) ==
  IF \E i \in DOMAIN s : s[i] \in set
    THEN CHOOSE i \in DOMAIN s : s[i] \in set /\ \A j \in 1..(i - 1) : s[j] \notin set
    ELSE Len(s) + 1

\* The special schemes other than file, as in Node 12 (the version the
\* repository's workflow runs), where gopher is one of them.
SpecialSchemes == { <<"h","t","t","p">>, <<"h","t","t","p","s">>, <<"w","s">>,
                    <<"w","s","s">>, <<"f","t","p">>, <<"g","o","p","h","e","r">> }

FileScheme == <<"f","i","l","e">>

\* The host parser returns a host: the host has no forbidden host code
\* point (of those only the space can be within a host here).
HostParses(host) == \A i \in DOMAIN host : host[i] # " "

\* Authority, host and port state on the text up to the first "/" or "#":
\* a ":" after an empty host is a failure, as is any character of a port
\* that is no digit, and an empty host of a special scheme.
AuthorityParses(authority, special) ==
  LET colon == FirstOf(authority, {":"})
      host  == SubSeq(authority, 1, colon - 1)
      port  == SubSeq(authority, colon + 1, Len(authority))
  IN  IF colon <= Len(authority)
        THEN host # <<>> /\ HostParses(host) /\ port = <<>>
        ELSE IF host = <<>> THEN ~special ELSE HostParses(host)

UpTo(s, set) == SubSeq(s, 1, FirstOf(s, set) - 1)

\* The states after the scheme state, on the text after the scheme's ":".
\* Path, query and fragment states never fail.
RestParses(scheme, rest) ==
  IF scheme \in SpecialSchemes
    \* special authority (ignore) slashes state
    THEN AuthorityParses(UpTo(StripLeading(rest, {Slash}), {Slash, "#"}), TRUE)
  ELSE IF scheme = FileScheme
    \* file, file slash and file host state: a Windows drive letter is no host
    THEN IF startsWith(rest, <<Slash, Slash>>)
           THEN LET host == UpTo(SubSeq(rest, 3, Len(rest)), {Slash, "#"})
                IN  \/ host = <<>>
                    \/ Len(host) = 2 /\ IsAlpha(host[1]) /\ host[2] = ":"
                    \/ HostParses(host) /\ \A i \in DOMAIN host : host[i] # ":"
           ELSE TRUE
  \* path or authority state of any other scheme; its path can be opaque
  ELSE IF startsWith(rest, <<Slash, Slash>>)
    THEN AuthorityParses(UpTo(SubSeq(rest, 3, Len(rest)), {Slash, "#"}), FALSE)
  ELSE TRUE

\* new URL(url).protocol: the lowercased scheme and ":"; Undefined when the
\* URL constructor throws. Leading and trailing C0 control or space go, then
\* every tab and newline; the scheme is what precedes the first ":", a
\* letter and then scheme characters.
Protocol(url) ==
  LET input  == Without(StripTrailing(StripLeading(url, C0ControlOrSpace),
                                      C0ControlOrSpace), AsciiTabOrNewline)
      colon  == FirstOf(input, {":"})
      scheme == toLowerCase(SubSeq(input, 1, colon - 1))
      rest   == SubSeq(input, colon + 1, Len(input))
  IN  IF /\ colon <= Len(input)
         /\ scheme # <<>>
         /\ IsAlpha(scheme[1])
         /\ \A i \in DOMAIN scheme : IsSchemeChar(scheme[i])
         /\ RestParses(scheme, rest)
        THEN scheme \o <<":">>
        ELSE Undefined

\* validateToURL(url, checkResolve, checkPath) with the Map cache: threw
\* tells whether it throws, cache is the Map after the call. resolved is
\* the outcome of the resolve(url) of line 659.
validateToURL(url, checkResolve, checkPath, cache, resolved, ds) ==
  LET returns == [threw |-> FALSE, cache |-> cache]
      throws  == [threw |-> TRUE, cache |-> cache]
  IN  IF url = Undefined THEN throws
      ELSE IF isVanityRedirectURL(url) THEN returns
      ELSE IF includes(url, SchemeSeparator)
        THEN IF Protocol(url) = HttpsProtocol THEN returns ELSE throws
      ELSE IF startsWith(url, <<Slash>>)
        THEN IF ~(checkURLInvalidSymbols(url) /\ validateURLLocale(url)) THEN throws
             ELSE IF checkResolve /\ (resolved.threw \/ resolved.value # url)
               THEN [threw |-> TRUE, cache |-> resolved.cache]
             ELSE [threw |-> checkPath /\ ~resolveDocumentPath(url, ds),
                   cache |-> IF checkResolve THEN resolved.cache ELSE cache]
      ELSE throws

\* TRUE when validatePairs returns, FALSE when it throws. Without
\* checkResolve the validators do not call resolve.
validatePairs(pairs, checkExists, ds) ==
  \A i \in DOMAIN pairs :
    /\ ~validateFromURL(At(pairs[i], 0), FALSE, <<>>, Unresolved, ds).threw
    /\ ~validateToURL(At(pairs[i], 1), FALSE, checkExists, <<>>, Unresolved, ds).threw

decodePair(pair) ==
  <<decodePath(pair[1]),
    IF startsWith(pair[2], <<Slash>>) THEN decodePath(pair[2]) ELSE decodeURI(pair[2])>>

\* TRUE when errorOnEncoded returns, FALSE when it throws (a decoded URL
\* differs, or a pair lacks its to and to.startsWith is a TypeError).
errorOnEncoded(pairs) ==
  \A i \in DOMAIN pairs :
    /\ Len(pairs[i]) >= 2
    /\ decodePair(pairs[i]) = <<pairs[i][1], pairs[i][2]>>

\* TRUE when errorOnDuplicated returns, FALSE when it throws.
errorOnDuplicated(pairs) ==
  \A i, j \in DOMAIN pairs :
    i < j => toLowerCase(pairs[i][1]) # toLowerCase(pairs[j][1])

(***************************************************************************)
(* Conflict and orphan removal                                             *)
(***************************************************************************)

\* xs.filter(...): the elements of xs whose index is in kept, in order.
RECURSIVE FilterFrom(_, _, _)
FilterFrom(xs, kept, i) ==
  IF i > Len(xs) THEN <<>>
  ELSE (IF i \in kept THEN <<xs[i]>> ELSE <<>>) \o FilterFrom(xs, kept, i + 1)

Filter(xs, kept) == FilterFrom(xs, kept, 1)

\* A plausible slip: the old pairs dropped are those whose target is the
\* source of an update.
removeStaleOldRedirects(oldPairs, updatePairs) ==
  LET newSources == {toLowerCase(updatePairs[i][1]) : i \in DOMAIN updatePairs}
  IN  Filter(oldPairs, {i \in DOMAIN oldPairs : toLowerCase(oldPairs[i][2]) \notin newSources})

\* A plausible slip: the from of the old pairs and the to of the updates
\* are compared as spelled.
removeConflictingOfSameCase(oldPairs, updatePairs) ==
  LET newTargets == {updatePairs[i][2] : i \in DOMAIN updatePairs}
  IN  Filter(oldPairs, {i \in DOMAIN oldPairs : oldPairs[i][1] \notin newTargets})

removeConflictingOldRedirects(oldPairs, updatePairs) ==
  LET newTargets == {toLowerCase(updatePairs[i][2]) : i \in DOMAIN updatePairs}
      conflictingTo(pair) == toLowerCase(pair[1]) \in newTargets
  IN  IF Len(oldPairs) = 0 THEN oldPairs
      ELSE Filter(oldPairs, {i \in DOMAIN oldPairs : ~conflictingTo(oldPairs[i])})

removeOrphanedRedirects(pairs, ds) ==
  LET orphaned(pair) ==
        \/ resolveDocumentPath(pair[1], ds)
        \/ startsWith(pair[2], <<Slash>>) /\ ~resolveDocumentPath(pair[2], ds)
  IN  Filter(pairs, {i \in DOMAIN pairs : ~orphaned(pairs[i])})

(***************************************************************************)
(* The persisted table: _redirects.txt as its text                         *)
(***************************************************************************)

Tab == "\t"

Newline == "\n"

\* "# FROM-URL\tTO-URL\n"
HeaderLine == <<"#"," ","F","R","O","M","-","U","R","L","\t","T","O","-","U","R","L","\n">>

Whitespace == {" ", "\t", "\n"}

\* String.prototype.trim
RECURSIVE trimStart(_)
trimStart(s) ==
  IF s # <<>> /\ Head(s) \in Whitespace THEN trimStart(Tail(s)) ELSE s

RECURSIVE trimEnd(_)
trimEnd(s) ==
  IF s # <<>> /\ s[Len(s)] \in Whitespace THEN trimEnd(SubSeq(s, 1, Len(s) - 1)) ELSE s

trim(s) == trimEnd(trimStart(s))

\* line.split(/\t+/) on a trimmed line: the pieces between runs of tabs.
splitTabs(line) ==
  IF line = <<>> THEN << <<>> >>
  ELSE LET pieces == split(line, Tab)
       IN  Filter(pieces, {i \in DOMAIN pieces : pieces[i] # <<>>})

\* content.trim().split("\n").slice(1).map((line) => line.trim().split(/\t+/))
ParseTable(content) ==
  LET lines == split(trim(content), Newline)
      rows  == SubSeq(lines, 2, Len(lines))
  IN  [i \in DOMAIN rows |-> splitTabs(trim(rows[i]))]

\* What save writes to its stream: the header, then `${fromURL}\t${toURL}\n`
\* for every pair.
RECURSIVE RowsText(_)
RowsText(pairs) ==
  IF pairs = <<>> THEN <<>>
  ELSE pairs[1][1] \o <<Tab>> \o pairs[1][2] \o <<Newline>> \o RowsText(Tail(pairs))

TableText(pairs) == HeaderLine \o RowsText(pairs)

\* loadPairsFromFile(filePath, strict) on the file's content;
\* fs.readFileSync throws when there is no file.
loadPairsFromFile(content, strict, ds) ==
  IF content = NoFile THEN [threw |-> TRUE, pairs |-> <<>>]
  ELSE
  LET pairs == ParseTable(content)
  IN  IF strict /\ ~errorOnEncoded(pairs) THEN [threw |-> TRUE, pairs |-> <<>>]
      ELSE IF strict /\ ~errorOnDuplicated(pairs) THEN [threw |-> TRUE, pairs |-> <<>>]
      ELSE IF ~validatePairs(pairs, strict, ds) THEN [threw |-> TRUE, pairs |-> <<>>]
      ELSE [threw |-> FALSE, pairs |-> pairs]

\* The first two elements of every row: what [from, to] destructuring reads.
AsPairs(rows) == [i \in DOMAIN rows |-> <<rows[i][1], rows[i][2]>>]

\* for (const [from, to] of pairs) redirects.set(from.toLowerCase(), to)
RECURSIVE SetPairs(_, _)
SetPairs(cache, pairs) ==
  IF pairs = <<>> THEN cache
  ELSE SetPairs(MapSet(cache, toLowerCase(pairs[1][1]), pairs[1][2]), Tail(pairs))

\* load(): of the locales only en-us has a _redirects.txt, if any.
\* threw tells whether loadPairsFromFile threw; cache is the Map after.
load(cache, content, ds) ==
  IF content = NoFile THEN [threw |-> FALSE, cache |-> cache]
  ELSE LET loaded == loadPairsFromFile(content, FALSE, ds)
       IN  IF loaded.threw THEN [threw |-> TRUE, cache |-> cache]
           ELSE [threw |-> FALSE, cache |-> SetPairs(cache, AsPairs(loaded.pairs))]

\* resolve(url) with the Map cache, the table content and the documents ds:
\* threw tells whether load threw, cache is the Map after the call, value
\* the URL returned.
resolve(url, cache, content, ds) ==
  LET l == IF Len(cache) = 0 THEN load(cache, content, ds)
           ELSE [threw |-> FALSE, cache |-> cache]
  IN  [threw |-> l.threw, cache |-> l.cache, loaded |-> (Len(cache) = 0),
       value |-> IF l.threw THEN Undefined ELSE Lookup(l.cache, url)]

AddThrew == [threw |-> TRUE, old |-> <<>>, clean |-> <<>>, simplified |-> <<>>,
             pairs |-> <<>>, changed |-> FALSE]

\* if (fs.existsSync(redirectsFilePath))
\*   pairs.push(...loadPairsFromFile(redirectsFilePath, !fix))
loadExisting(content, fix, ds) ==
  IF content # NoFile THEN loadPairsFromFile(content, ~fix, ds)
  ELSE [threw |-> FALSE, pairs |-> <<>>]

\* The checks of updatePairs that open loadLocaleAndAdd return.
updateAccepted(updatePairs, ds) ==
  /\ errorOnEncoded(updatePairs)
  /\ errorOnDuplicated(updatePairs)
  /\ validatePairs(updatePairs, TRUE, ds)

\* loadLocaleAndAdd from the merge on: pairs are the pairs loaded from the
\* file. old, clean and simplified record pairs, cleanPairs (as handed to
\* shortCuts) and shortCuts' result.
mergeAndSimplify(pairs, updatePairs, fix, ds) ==
  LET cleanPairs == removeConflictingOldRedirects(pairs, updatePairs) \o updatePairs
      short      == shortCuts(cleanPairs, FALSE).pairs
      simplifiedPairs == IF fix THEN removeOrphanedRedirects(short, ds) ELSE short
  IN  IF ~validatePairs(simplifiedPairs, TRUE, ds) THEN AddThrew
      ELSE [threw |-> FALSE, old |-> pairs, clean |-> cleanPairs,
            simplified |-> short, pairs |-> simplifiedPairs,
            \* simplifiedPairs == pairs compares two distinct arrays
            changed |-> FALSE]

\* loadLocaleAndAdd(locale, updatePairs, {fix}) for a spelling of en-US,
\* given the outcome, loaded, of reading CONTENT_ROOT/en-us/_redirects.txt
\* (which the code reads only once updatePairs is accepted).
loadLocaleAndAddTo(loaded, updatePairs, fix, ds) ==
  IF ~updateAccepted(updatePairs, ds) THEN AddThrew
  ELSE IF loaded.threw THEN AddThrew
  ELSE mergeAndSimplify(AsPairs(loaded.pairs), updatePairs, fix, ds)

\* content is the text of CONTENT_ROOT/en-us/_redirects.txt, or NoFile.
loadLocaleAndAdd(content, updatePairs, fix, ds) ==
  loadLocaleAndAddTo(loadExisting(content, fix, ds), updatePairs, fix, ds)

(***************************************************************************)
(* URLs of the model                                                       *)
(***************************************************************************)

DocsPrefix == <<"/","e","n","-","U","S","/","d","o","c","s","/">>

UrlA  == DocsPrefix \o <<"A">>
UrlLa == DocsPrefix \o <<"a">>
UrlB  == DocsPrefix \o <<"B">>
UrlC  == DocsPrefix \o <<"C">>
UrlD  == DocsPrefix \o <<"D">>

\* Longest pair list handed to shortCuts in FlatSpec.
MaxPairs == 3

FlatFroms == {UrlA, UrlLa, UrlB, UrlC}
FlatTos   == {UrlA, UrlB, UrlC, UrlD}

SeqsUpTo(S, n) == UNION {[1..k -> S] : k \in 0..n}

(***************************************************************************)
(* State                                                                   *)
(***************************************************************************)

VARIABLES
  fIn,      \* FlatSpec: the pair list given to shortCuts
  fThrows,  \* FlatSpec: the throws argument of the call
  fOut,     \* FlatSpec: the result of shortCuts(fIn, fThrows)
  fOut2,    \* FlatSpec: the result of shortCuts on fOut's pairs
  fPc,      \* FlatSpec: "init", "flattened", "again"
  file,     \* the text of CONTENT_ROOT/en-us/_redirects.txt, or NoFile
  docs,     \* the document folders that hold an index.html
  redirects, \* the module level cache, a Map
  streams,  \* the write streams save created that have not finished
  crashed,  \* the process ended on an unhandled stream 'error' event
  ret,      \* the last call of the module's API and its outcome
  nOps,     \* the number of API calls made
  pCall,    \* PureSpec: the function called and its arguments
  pRet      \* PureSpec: the outcome of the call

flatVars == <<fIn, fThrows, fOut, fOut2, fPc>>

pureVars == <<pCall, pRet>>

NoCall == [op |-> "none", threw |-> FALSE]

\* No function of PureSpec is called.
PureIdle == pCall = NoCall /\ pRet = NoCall

NoResult == [threw |-> FALSE, pairs |-> <<>>]

FlatInputs ==
  /\ fIn \in SeqsUpTo(FlatFroms \X FlatTos, MaxPairs)
  /\ fThrows = FALSE
  /\ fOut = NoResult
  /\ fOut2 = NoResult
  /\ fPc = "init"

\* testing.shortCuts(fIn, throws)
Flatten ==
  /\ fPc = "init"
  /\ \E throws \in BOOLEAN :
       /\ fThrows' = throws
       /\ fOut' = shortCuts(fIn, throws)
  /\ fPc' = "flattened"
  /\ UNCHANGED <<fIn, fOut2>>
  /\ UNCHANGED <<file, docs, redirects, streams, crashed, ret, nOps>>
  /\ UNCHANGED pureVars

\* testing.shortCuts on the pairs the first call returned
FlattenAgain ==
  /\ fPc = "flattened"
  /\ ~fOut.threw
  /\ fOut2' = shortCuts(fOut.pairs, fThrows)
  /\ fPc' = "again"
  /\ UNCHANGED <<fIn, fThrows, fOut>>
  /\ UNCHANGED <<file, docs, redirects, streams, crashed, ret, nOps>>
  /\ UNCHANGED pureVars

(***************************************************************************)
(* The module's API over one locale, en-US, with CONTENT_ROOT on a         *)
(* case-sensitive file system that holds the folder en-us (on a            *)
(* case-insensitive one every spelling of the locale names that folder,    *)
(* which is the behaviour of the spelling en-us here).                     *)
(***************************************************************************)

sysVars == <<file, docs, redirects, streams, crashed, ret, nOps>>

vars == <<fIn, fThrows, fOut, fOut2, fPc,
          file, docs, redirects, streams, crashed, ret, nOps, pCall, pRet>>

\* Most API calls in one behaviour.
MaxOps == 2

\* Most rows of the table found on disk at the start.
MaxInitRows == 2

\* Most pairs in the update of one add call.
MaxUpdate == 1

EnUs == <<"e","n","-","U","S">>

\* The spellings of the locale argument.
LocaleArgs == {EnUs, EnUsLower}

\* The pairs of the tables found on disk and of the updates.
TablePairs == { <<UrlA, UrlB>>, <<UrlB, UrlC>>, <<UrlLa, UrlC>>,
                <<UrlA, UrlC>>, <<UrlB, UrlA>> }

DocFolder(c) == EnUsLower \o <<Slash>> \o <<c>>

\* The document trees found on disk.
DocTrees == { {DocFolder("c")}, {DocFolder("b"), DocFolder("c")} }

ResolveUrls == {UrlA, UrlB, UrlC}

SysInit ==
  /\ file \in {NoFile} \cup {TableText(t) : t \in SeqsUpTo(TablePairs, MaxInitRows)}
  /\ docs \in DocTrees
  /\ redirects = <<>>
  /\ streams = <<>>
  /\ crashed = FALSE
  /\ ret = NoCall
  /\ nOps = 0

SysIdle ==
  /\ file = NoFile /\ docs = {} /\ redirects = <<>> /\ streams = <<>>
  /\ crashed = FALSE /\ ret = NoCall /\ nOps = 0

FlatIdle ==
  fIn = <<>> /\ fThrows = FALSE /\ fOut = NoResult /\ fOut2 = NoResult /\ fPc = "idle"

CanCall == ~crashed /\ nOps < MaxOps

\* save(localeFolder, pairs): fs.createWriteStream and the writes are
\* queued; the file is opened and written later, from the event loop. data
\* is the text of the queued writes, the header first; pos is the offset of
\* the stream's file descriptor.
save(locale, pairs) ==
  Append(streams, [folder |-> locale, data |-> TableText(pairs),
                   open |-> FALSE, pos |-> 0])

\* add(locale, updatePairs, {fix}). ret records the call for the
\* properties: read is the content the call found in the file, accepted
\* whether the opening checks of updatePairs returned.
Add ==
  /\ CanCall
  /\ \E fix \in BOOLEAN :
     \E loaded \in {loadExisting(file, fix, docs)} :
     \E updatePairs \in SeqsUpTo(TablePairs, MaxUpdate) :
     \E accepted \in {updateAccepted(updatePairs, docs)} :
     \E r \in {IF accepted THEN loadLocaleAndAddTo(loaded, updatePairs, fix, docs)
               ELSE AddThrew} :
     \E locale \in LocaleArgs :
       /\ ret' = [op |-> "add", threw |-> r.threw, fix |-> fix, read |-> file,
                  accepted |-> accepted,
                  update |-> IF accepted THEN updatePairs ELSE <<>>,
                  old |-> r.old, clean |-> r.clean,
                  simplified |-> r.simplified, pairs |-> r.pairs]
       /\ streams' = IF r.threw THEN streams ELSE save(locale, r.pairs)
  /\ nOps' = nOps + 1
  /\ UNCHANGED <<file, docs, redirects, crashed>>
  /\ UNCHANGED <<flatVars, pureVars>>

\* validateLocale(locale, strict)
ValidateLocale ==
  /\ CanCall
  /\ \E strict \in BOOLEAN :
     \E r \in {loadLocaleAndAdd(file, <<>>, strict, docs)} :
       ret' = [op |-> "validateLocale", threw |-> r.threw \/ r.changed,
               strict |-> strict, read |-> file]
  /\ nOps' = nOps + 1
  /\ UNCHANGED <<file, docs, redirects, streams, crashed>>
  /\ UNCHANGED <<flatVars, pureVars>>

Load ==
  /\ CanCall
  /\ \E l \in {load(redirects, file, docs)} :
       /\ redirects' = l.cache
       /\ ret' = [op |-> "load", threw |-> l.threw, read |-> file]
  /\ nOps' = nOps + 1
  /\ UNCHANGED <<file, docs, streams, crashed>>
  /\ UNCHANGED <<flatVars, pureVars>>

\* resolve(url). ret records whether the call ran load() (loaded) and the
\* API call made before it (prev).
Resolve ==
  /\ CanCall
  /\ \E url \in ResolveUrls :
     \E r \in {resolve(url, redirects, file, docs)} :
       /\ redirects' = r.cache
       /\ ret' = [op |-> "resolve", threw |-> r.threw, url |-> url,
                  loaded |-> r.loaded, read |-> file,
                  prev |-> ret.op,
                  value |-> IF r.threw THEN <<>> ELSE r.value]
  /\ nOps' = nOps + 1
  /\ UNCHANGED <<file, docs, streams, crashed>>
  /\ UNCHANGED <<flatVars, pureVars>>

\* The call validateFromURL(url, checkResolve) on the state: the Map is
\* left as the call's resolve, if it came to it, left it.
validateFromURLCall(url, checkResolve) ==
  /\ \E r \in {validateFromURL(url, checkResolve, redirects,
                             resolve(url, redirects, file, docs), docs)} :
       /\ redirects' = r.cache
       /\ ret' = [op |-> "validateFromURL", threw |-> r.threw, url |-> url,
                  checkResolve |-> checkResolve, read |-> file, cache |-> redirects]
  /\ nOps' = nOps + 1
  /\ UNCHANGED <<file, docs, streams, crashed>>

\* validateFromURL(url, checkResolve)
ValidateFrom ==
  /\ CanCall
  /\ \E url \in ResolveUrls : \E checkResolve \in BOOLEAN :
       validateFromURLCall(url, checkResolve)
  /\ UNCHANGED <<flatVars, pureVars>>

\* The call validateToURL(url, checkResolve, checkPath) on the state.
validateToURLCall(url, checkResolve, checkPath) ==
  /\ \E r \in {validateToURL(url, checkResolve, checkPath, redirects,
                           resolve(url, redirects, file, docs), docs)} :
       /\ redirects' = r.cache
       /\ ret' = [op |-> "validateToURL", threw |-> r.threw, url |-> url,
                  checkResolve |-> checkResolve, checkPath |-> checkPath,
                  read |-> file, cache |-> redirects]
  /\ nOps' = nOps + 1
  /\ UNCHANGED <<file, docs, streams, crashed>>

\* validateToURL(url, checkResolve, checkPath)
ValidateTo ==
  /\ CanCall
  /\ \E url \in ResolveUrls : \E checkResolve, checkPath \in BOOLEAN :
       validateToURLCall(url, checkResolve, checkPath)
  /\ UNCHANGED <<flatVars, pureVars>>

\* CONTENT_ROOT holds the folder en-us and no folder en-US.
FolderExists(folder) == folder = EnUsLower

RemoveAt(xs, i) == SubSeq(xs, 1, i - 1) \o SubSeq(xs, i + 1, Len(xs))

\* The stream's fs.open with flags "w" completes: the file is created or
\* truncated. In a folder that does not exist the open fails and the
\* stream's 'error' event, which has no listener, ends the process.
StreamOpen ==
  /\ ~crashed
  /\ \E i \in DOMAIN streams :
       /\ ~streams[i].open
       /\ IF FolderExists(streams[i].folder)
            THEN /\ file' = <<>>
                 /\ streams' = [streams EXCEPT ![i].open = TRUE]
                 /\ crashed' = FALSE
            ELSE /\ file' = file
                 /\ streams' = <<>>
                 /\ crashed' = TRUE
  /\ UNCHANGED <<docs, redirects, ret, nOps>>
  /\ UNCHANGED <<flatVars, pureVars>>

\* The NUL byte: what a file holds between its end and the offset of a
\* write that starts past its end.
Nul == "NUL"

\* Writing data at offset pos of a file that holds old.
WriteAt(old, pos, data) ==
  LET gap  == [i \in 1..(pos - Len(old)) |-> Nul]
      base == IF pos > Len(old) THEN old \o gap ELSE old
  IN  SubSeq(base, 1, pos) \o data \o SubSeq(base, pos + Len(data) + 1, Len(base))

\* The writes of a stream, as Node 12 (the version the repository's
\* workflow runs) performs them: the first write of save, the header, waits
\* for the open and is one fs.write at the descriptor's offset 0; the
\* writes queued behind it go to the file together when it has completed
\* (one fs.write or fs.writev), and the stream closes after its last write.

\* The stream's fs.write of the header completes.
StreamWriteHeader ==
  /\ ~crashed
  /\ \E i \in DOMAIN streams :
       /\ streams[i].open
       /\ streams[i].pos = 0
       /\ file' = WriteAt(file, 0, HeaderLine)
       /\ streams' = IF streams[i].data = HeaderLine
                       THEN RemoveAt(streams, i)
                       ELSE [streams EXCEPT ![i].pos = Len(HeaderLine)]
  /\ UNCHANGED <<docs, redirects, crashed, ret, nOps>>
  /\ UNCHANGED <<flatVars, pureVars>>

\* The stream's write of the rows completes, at the descriptor's offset
\* after the header.
StreamWriteRows ==
  /\ ~crashed
  /\ \E i \in DOMAIN streams :
       /\ streams[i].open
       /\ streams[i].pos > 0
       /\ file' = WriteAt(file, streams[i].pos,
                          SubSeq(streams[i].data, streams[i].pos + 1,
                                 Len(streams[i].data)))
       /\ streams' = RemoveAt(streams, i)
  /\ UNCHANGED <<docs, redirects, crashed, ret, nOps>>
  /\ UNCHANGED <<flatVars, pureVars>>

Init == SysInit /\ FlatIdle /\ PureIdle

Next ==
  \/ Add \/ ValidateLocale \/ Load \/ Resolve \/ ValidateFrom \/ ValidateTo
  \/ StreamOpen \/ StreamWriteHeader \/ StreamWriteRows

Spec == Init /\ [][Next]_vars

\* testing.shortCuts alone: the API is not called.
FlatInit == FlatInputs /\ SysIdle /\ PureIdle

FlatNext == Flatten \/ FlattenAgain

FlatSpec == FlatInit /\ [][FlatNext]_vars

(***************************************************************************)
(* Single calls of the module's functions (PureSpec)                       *)
(***************************************************************************)

VanityEnUs == <<"/","e","n","-","U","S","/">>

VanityFr == <<"/","f","r","/">>

HttpsUrl == <<"h","t","t","p","s",":","/","/","z">>

HttpUrl == <<"h","t","t","p",":","/","/","z">>

UpperHttpsUrl == <<"H","T","T","P","S",":","/","/","z">>

BareUrl == <<"z">>

WrongLocaleUrl == <<"/","z","z","/","d","o","c","s","/","A">>

LowerLocaleUrl == <<"/","e","n","-","u","s","/","d","o","c","s","/","A">>

NoDocsUrl == <<"/","e","n","-","U","S","/","A">>

TabUrl == UrlA \o <<"\t">> \o <<"B">>

NewlineUrl == UrlA \o <<"\n">>

SchemeInPathUrl == UrlA \o <<":","/","/","B">>

FrUrl == <<"/","f","r","/","d","o","c","s","/","A">>

LeadingSpaceUrl == <<" ">> \o HttpsUrl

TabInSchemeUrl == <<"h","t","\t","t","p","s",":","/","/","z">>

NoHostUrl == <<"h","t","t","p","s",":","/","/","/">>

PortUrl == <<"h","t","t","p","s",":","/","/","a",":","b">>

SpaceInHostUrl == <<"h","t","t","p","s",":","/","/"," ","z">>

OtherSchemeUrl == <<"a",":","/","/">>

TrailingSlashUrl == UrlC \o <<Slash>>

DotSegmentUrl == DocsPrefix \o <<"B","/",".",".","/","C">>

DocsRootUrl == DocsPrefix

\* The url arguments of validateToURL.
ToUrls == { VanityEnUs, VanityFr, HttpsUrl, HttpUrl, UpperHttpsUrl, BareUrl, <<>>,
            UrlA, UrlLa, UrlB, UrlC, WrongLocaleUrl, LowerLocaleUrl, NoDocsUrl,
            TabUrl, NewlineUrl, SchemeInPathUrl, FrUrl,
            LeadingSpaceUrl, TabInSchemeUrl, NoHostUrl, PortUrl, SpaceInHostUrl,
            OtherSchemeUrl, TrailingSlashUrl, DotSegmentUrl, DocsRootUrl }

ValidateToCalls ==
  [op : {"validateToURL"}, url : ToUrls, checkResolve : BOOLEAN, checkPath : BOOLEAN]

\* The tables found on disk in PureSpec: none, and the table B -> C.
PureFiles == { NoFile, TableText(<< <<UrlB, UrlC>> >>) }

\* The document trees of PureSpec: those of Spec, and one with an
\* index.html in the folder en-us itself.
PureDocTrees == DocTrees \cup { {EnUsLower, DocFolder("c")} }

\* Most pairs saved in one call of PureSpec.
MaxSaved == 2

\* The pairs given to save: among them a from and tos that end in a space.
SavedFroms == { UrlA, UrlB, UrlA \o <<" ">> }

SavedTos == { UrlC, UrlC \o <<" ">>, HttpsUrl, HttpsUrl \o <<" ">>, VanityEnUs }

SaveCalls ==
  [op : {"save"}, pairs : SeqsUpTo(SavedFroms \X SavedTos, MaxSaved)]

\* Most old pairs given to removeConflictingOldRedirects in PureSpec.
MaxOld == 2

ConflictPairs == {UrlA, UrlLa, UrlB} \X {UrlA, UrlB, UrlC}

ConflictCalls ==
  [op : {"removeConflicting"}, oldPairs : SeqsUpTo(ConflictPairs, MaxOld),
   updatePairs : SeqsUpTo(ConflictPairs, MaxUpdate)]

PureCalls == ValidateToCalls \cup SaveCalls \cup ConflictCalls

\* The cache is empty, as it is when the module has been loaded; the
\* function of removeConflictingOldRedirects reads no state.
PureInit ==
  /\ pCall \in PureCalls
  /\ pRet = NoCall
  /\ IF pCall.op = "removeConflicting"
       THEN file = NoFile /\ docs = {}
       ELSE file \in PureFiles /\ docs \in PureDocTrees
  /\ redirects = <<>>
  /\ streams = <<>>
  /\ crashed = FALSE
  /\ ret = NoCall
  /\ nOps = 0

\* validateToURL(url, checkResolve, checkPath) with the arguments of pCall
ValidateToOnce ==
  /\ pCall.op = "validateToURL"
  /\ pRet = NoCall
  /\ validateToURLCall(pCall.url, pCall.checkResolve, pCall.checkPath)
  /\ pRet' = [op |-> "validateToURL",
              threw |-> validateToURL(pCall.url, pCall.checkResolve, pCall.checkPath,
                                      redirects,
                                      resolve(pCall.url, redirects, file, docs),
                                      docs).threw]
  /\ UNCHANGED pCall
  /\ UNCHANGED flatVars

\* save(path.join(CONTENT_ROOT, "en-us"), pairs): the stream is created and
\* its writes are queued.
Save ==
  /\ pCall.op = "save"
  /\ pRet = NoCall
  /\ streams' = save(EnUsLower, pCall.pairs)
  /\ pRet' = [op |-> "save", threw |-> FALSE]
  /\ UNCHANGED pCall
  /\ UNCHANGED <<file, docs, redirects, crashed, ret, nOps>>
  /\ UNCHANGED flatVars

\* loadPairsFromFile(filePath, strict) of the file save was called for, at
\* any time after save returned. written tells whether save's stream had
\* finished.
LoadSaved ==
  /\ pCall.op = "save"
  /\ pRet.op = "save"
  /\ ~crashed
  /\ \E strict \in BOOLEAN :
     \E loaded \in {loadPairsFromFile(file, strict, docs)} :
       pRet' = [op |-> "loadPairsFromFile", threw |-> loaded.threw,
                pairs |-> loaded.pairs, strict |-> strict, read |-> file,
                written |-> (streams = <<>>)]
  /\ UNCHANGED pCall
  /\ UNCHANGED <<flatVars, sysVars>>

\* removeConflictingOldRedirects(oldPairs, updatePairs)
RemoveConflicting ==
  /\ pCall.op = "removeConflicting"
  /\ pRet = NoCall
  /\ pRet' = [op |-> "removeConflicting", threw |-> FALSE,
              pairs |-> removeConflictingOldRedirects(pCall.oldPairs, pCall.updatePairs)]
  /\ UNCHANGED pCall
  /\ UNCHANGED <<flatVars, sysVars>>

PureStart == PureInit /\ FlatIdle

PureNext ==
  \/ ValidateToOnce \/ Save \/ LoadSaved \/ RemoveConflicting
  \/ StreamOpen \/ StreamWriteHeader \/ StreamWriteRows

PureSpec == PureStart /\ [][PureNext]_vars

(***************************************************************************)
(* Properties of shortCuts                                                 *)
(***************************************************************************)

Range(xs) == {xs[i] : i \in DOMAIN xs}

\* The graph of a pair list: nodes are lowercased URLs and every pair is an
\* edge from its source to its target. The operators below take the
\* lowercased pairs, lp.
Lowered(pairs) ==
  [i \in DOMAIN pairs |-> <<toLowerCase(pairs[i][1]), toLowerCase(pairs[i][2])>>]

Sources(lp) == {lp[i][1] : i \in DOMAIN lp}

Nodes(lp) == Sources(lp) \cup {lp[i][2] : i \in DOMAIN lp}

\* The edge shortCuts keeps for a source: the target of the last pair that
\* has it as source.
EdgeOf(lp, s) ==
  LET last == CHOOSE i \in DOMAIN lp :
                lp[i][1] = s /\ \A j \in DOMAIN lp : lp[j][1] = s => j <= i
  IN  lp[last][2]

NoNode == <<>>

\* The node k kept edges after s, NoNode when the chain ends earlier.
RECURSIVE After(_, _, _)
After(lp, s, k) ==
  IF k = 0 THEN s
  ELSE LET p == After(lp, s, k - 1)
       IN  IF p = NoNode \/ p \notin Sources(lp) THEN NoNode ELSE EdgeOf(lp, p)

\* The nodes that one to k edges of the input lead to from the nodes of
\* from.
RECURSIVE Reached(_, _, _)
Reached(lp, from, k) ==
  IF k = 0 THEN {}
  ELSE LET next == {lp[i][2] : i \in {j \in DOMAIN lp : lp[j][1] \in from}}
       IN  next \cup Reached(lp, next, k - 1)

\* A chain of edges of s ends at t: t is reached from s by one or more
\* edges of the input and has no outgoing edge (the shortest such chain
\* revisits no node).
EndsAt(lp, s, t) == t \in Reached(lp, {s}, Len(lp)) /\ t \notin Sources(lp)

\* s lies on a cycle of the input's edges; s -> s is one.
OnCycle(lp, s) == s \in Reached(lp, {s}, Len(lp))

HasCycle(lp) == \E s \in Sources(lp) : OnCycle(lp, s)

HasChain(lp) ==
  \E i, j \in DOMAIN lp : lp[i][2] = lp[j][1] /\ lp[i][1] # lp[j][1]

\* C1: flattening is idempotent: shortCuts applied to the list shortCuts
\* returned gives that same ordered list back.
C1_Idempotent ==
  fPc = "again" => (~fOut2.threw /\ fOut2.pairs = fOut.pairs)

\* a three-pair input with a chain whose flattening changed it
C1_Witness ==
  /\ fPc = "again"
  /\ HasChain(Lowered(fIn))
  /\ Len(fOut.pairs) = 3
  /\ fOut.pairs # fIn

\* C2: for every input pair list, the output has a pair s -> t
\* (case-insensitively) exactly when s is a source of the input with a chain
\* of outgoing edges that ends at t, a node without an outgoing edge;
\* A -> B, B -> C gives exactly A -> C, B -> C.
C2_ChainFlattening ==
  (fPc = "flattened" /\ ~fOut.threw) =>
    LET lp  == Lowered(fIn)
        out == Range(Lowered(fOut.pairs))
    IN  /\ \A s, t \in Nodes(lp) :
             (<<s, t>> \in out) <=> (s \in Sources(lp) /\ EndsAt(lp, s, t))
        /\ out \subseteq Nodes(lp) \X Nodes(lp)
        /\ fIn = <<<<UrlA, UrlB>>, <<UrlB, UrlC>>>> =>
             fOut.pairs = <<<<UrlA, UrlC>>, <<UrlB, UrlC>>>>

\* shortCuts returned a list without a pair from A to B for a list whose
\* first pair is A -> B, B having no outgoing edge
C2_Witness ==
  /\ fPc = "flattened" /\ ~fOut.threw
  /\ Len(fIn) = 2
  /\ fIn[1] = <<UrlA, UrlB>>
  /\ toLowerCase(UrlB) \notin Sources(Lowered(fIn))
  /\ <<toLowerCase(UrlA), toLowerCase(UrlB)>> \notin Range(Lowered(fOut.pairs))

\* C3: no target of an output pair is, case-insensitively, the source of an
\* output pair: every path of the output graph has length at most 1.
C3_Acyclic ==
  (fPc = "flattened" /\ ~fOut.threw) =>
    LET out == Lowered(fOut.pairs)
    IN  \A i, j \in DOMAIN out : out[i][2] # out[j][1]

\* a three-edge chain A -> B -> C -> D has been flattened to three pairs
C3_Witness ==
  /\ fPc = "flattened"
  /\ LET lp == Lowered(fIn)
     IN  \E s \in Sources(lp) : After(lp, s, 3) \notin Sources(lp) \cup {NoNode}
  /\ Len(fOut.pairs) = 3

\* C4: when the input has a cycle (a self-loop is one), shortCuts with
\* throws = false returns and no returned pair has its source on a cycle;
\* with throws = true it raises.
C4_Cycles ==
  LET lp == Lowered(fIn)
  IN  (fPc = "flattened" /\ HasCycle(lp)) =>
        /\ fThrows => fOut.threw
        /\ ~fThrows =>
             /\ ~fOut.threw
             /\ \A p \in Range(Lowered(fOut.pairs)) : ~OnCycle(lp, p[1])

\* shortCuts with throws = true returned for a list that starts with the
\* self-loop A -> A
C4_Witness ==
  /\ fPc = "flattened"
  /\ fThrows /\ ~fOut.threw
  /\ fIn # <<>> /\ fIn[1] = <<UrlA, UrlA>>
  /\ fOut.pairs # <<>>

(***************************************************************************)
(* Properties of the API                                                   *)
(***************************************************************************)

\* The rows of a table's text as the loader splits them.
RowsOf(content) == IF content = NoFile THEN <<>> ELSE ParseTable(content)

\* No two rows have case-insensitively equal first fields.
UniqueFroms(rows) ==
  \A i, j \in DOMAIN rows :
    (i # j /\ rows[i] # <<>> /\ rows[j] # <<>>) =>
      toLowerCase(rows[i][1]) # toLowerCase(rows[j][1])

AddReturned == ret.op = "add" /\ ~ret.threw

\* Every stream of every add has opened and written the file.
Written == streams = <<>> /\ ~crashed

\* C5: after successful add calls, once their writes have reached the file,
\* the persisted table has no two pairs with case-insensitively equal from.
C5_UniqueSources ==
  (AddReturned /\ Written) => UniqueFroms(RowsOf(file))

\* two adds returned, their streams wrote the file, and the table holds a
\* source twice
C5_Witness ==
  /\ AddReturned /\ Written
  /\ nOps = 2
  /\ Len(RowsOf(file)) = 2
  /\ ~UniqueFroms(RowsOf(file))

\* (a, b) comes before (c, d) in the order by (from, to) of the strings
\* as spelled.
TupleBefore(p, q) ==
  \/ StrLess(p[1], q[1])
  \/ p[1] = q[1] /\ StrLess(p[2], q[2])

Ascending(pairs) ==
  \A i, j \in DOMAIN pairs : i < j => ~TupleBefore(pairs[j], pairs[i])

\* C6: the list shortCuts returns to add, the pairs add hands to save and
\* the rows every save has queued are ascending by (from, to) on the
\* case-restored strings.
C6_Sorted ==
  AddReturned =>
    /\ Ascending(ret.simplified)
    /\ Ascending(ret.pairs)
    /\ \A i \in DOMAIN streams : Ascending(AsPairs(RowsOf(streams[i].data)))

\* add merged an update into a table listed in another order and queued
\* two rows
C6_Witness ==
  /\ AddReturned
  /\ Len(ret.pairs) = 2
  /\ ret.clean # ret.simplified
  /\ ~Ascending(ret.clean)
  /\ streams # <<>>

\* C7: resolve never raises, whatever the cache and the persisted table
\* hold.
C7_ResolveNeverRaises ==
  ret.op = "resolve" => ~ret.threw

\* resolve found the cache empty, loaded a table with a from that resolves
\* to a document, and ended with the loader's Error
C7_Witness ==
  /\ ret.op = "resolve" /\ ret.loaded /\ ret.threw
  /\ \E i \in DOMAIN RowsOf(ret.read) :
       Len(RowsOf(ret.read)[i]) = 2
         /\ resolveDocumentPath(RowsOf(ret.read)[i][1], docs)

\* The row's from resolves to a document.
FromExists(row, ds) == Len(row) >= 1 /\ resolveDocumentPath(row[1], ds)

\* The row's internal to resolves to no document.
ToDangles(row, ds) ==
  Len(row) >= 2 /\ startsWith(row[2], <<Slash>>) /\ ~resolveDocumentPath(row[2], ds)

Orphaned(row, ds) == FromExists(row, ds) \/ ToDangles(row, ds)

\* The table has a chain or a cycle (a target that is also a source), two
\* case-insensitively equal sources, or an orphaned row.
NotCanonical(rows, ds) ==
  \/ \E i, j \in DOMAIN rows :
       Len(rows[i]) >= 2 /\ rows[j] # <<>>
         /\ toLowerCase(rows[i][2]) = toLowerCase(rows[j][1])
  \/ ~UniqueFroms(rows)
  \/ \E i \in DOMAIN rows : Orphaned(rows[i], ds)

\* C8: validateLocale raises when the persisted table is not canonical,
\* for strict = false and for strict = true.
C8_ValidateRaises ==
  (ret.op = "validateLocale" /\ NotCanonical(RowsOf(ret.read), docs)) => ret.threw

\* validateLocale(locale, true) returned on the table A -> B, B -> C
C8_Witness ==
  /\ ret.op = "validateLocale" /\ ret.strict /\ ~ret.threw
  /\ RowsOf(ret.read) = <<<<UrlA, UrlB>>, <<UrlB, UrlC>>>>

\* C9: add with fix and an acceptable update, on a table with an orphaned
\* pair, completes, and the rows it writes hold no orphaned pair of the
\* table.
C9_RepairDropsOrphans ==
  LET rows == RowsOf(ret.read)
  IN  (ret.op = "add" /\ ret.fix /\ ret.accepted
         /\ \E i \in DOMAIN rows : Orphaned(rows[i], docs)) =>
        /\ ~ret.threw
        /\ \A i \in DOMAIN rows :
             Orphaned(rows[i], docs) => rows[i] \notin Range(ret.pairs)

\* add with fix and no update ended with an Error on a table whose only
\* flaw is a from that resolves to a document
C9_Witness ==
  /\ ret.op = "add" /\ ret.fix /\ ret.accepted /\ ret.threw
  /\ ret.update = <<>>
  /\ LET rows == RowsOf(ret.read)
     IN  /\ rows # <<>>
         /\ \A i \in DOMAIN rows : FromExists(rows[i], docs) /\ ~ToDangles(rows[i], docs)

\* The old pair's target is the update pair's source (the old pair is
\* Z -> X and the update X -> Y), and Z is not Y.
Stale(oldPair, updatePair) ==
  /\ toLowerCase(oldPair[2]) = toLowerCase(updatePair[1])
  /\ toLowerCase(oldPair[1]) # toLowerCase(updatePair[2])

\* C10 as amended: merging the update X -> Y into a store that contains
\* Z -> X keeps the old pair: the list handed to the flattener holds both
\* Z -> X and X -> Y.
C10_StaleKept ==
  AddReturned =>
    \A i \in DOMAIN ret.old : \A j \in DOMAIN ret.update :
      Stale(ret.old[i], ret.update[j]) =>
        /\ ret.old[i] \in Range(ret.clean)
        /\ ret.update[j] \in Range(ret.clean)

\* C10 as stated: merging the update X -> Y into a store that contains
\* Z -> X leaves no pair with source Z in the list handed to the flattener.
C10_StaleRemoved ==
  AddReturned =>
    \A i \in DOMAIN ret.old : \A j \in DOMAIN ret.update :
      Stale(ret.old[i], ret.update[j]) =>
        \A k \in DOMAIN ret.clean :
          toLowerCase(ret.clean[k][1]) # toLowerCase(ret.old[i][1])

\* add merged X -> Y into a table holding Z -> X and wrote Z -> Y, X -> Y
C10_Witness ==
  /\ AddReturned
  /\ \E i \in DOMAIN ret.old : \E j \in DOMAIN ret.update :
       Stale(ret.old[i], ret.update[j])
  /\ Len(ret.clean) = 2
  /\ Len(ret.pairs) = 2

\* Every row is a pair whose from resolves to no document and whose to,
\* when it starts with "/" and is no vanity URL, resolves to a document.
DocumentsAgree(rows, ds) ==
  \A i \in DOMAIN rows :
    /\ Len(rows[i]) = 2
    /\ ~resolveDocumentPath(rows[i][1], ds)
    /\ (startsWith(rows[i][2], <<Slash>>) /\ ~isVanityRedirectURL(rows[i][2]))
         => resolveDocumentPath(rows[i][2], ds)

\* C11: after a successful add, against the documents as they are at the
\* call, no from of the persisted table (the file of the locale) resolves
\* to a document and every internal, non-vanity to resolves to one.
C11_DocumentsAgree ==
  AddReturned => DocumentsAgree(RowsOf(file), docs)

\* add with fix has returned on a table with a dangling to and handed save
\* pairs that agree with the documents; the file is as the call found it
C11_Witness ==
  /\ AddReturned /\ ret.fix
  /\ \E i \in DOMAIN RowsOf(ret.read) : ToDangles(RowsOf(ret.read)[i], docs)
  /\ DocumentsAgree(ret.pairs, docs)
  /\ file = ret.read
  /\ \A i \in DOMAIN streams : ~streams[i].open

(***************************************************************************)
(* Properties of single calls                                              *)
(***************************************************************************)

\* url is /{valid locale}/docs/...
UnderLocaleDocs(url) ==
  \E l \in VALID_LOCALES : startsWith(url, <<Slash>> \o l \o DocsInfix)

\* url is, case-insensitively, a redirect source: of the cache the call
\* found or, when that was empty, of the table on disk.
IsRedirectSource(url) ==
  IF ret.cache # <<>> THEN MapHas(ret.cache, toLowerCase(url))
  ELSE \E i \in DOMAIN RowsOf(ret.read) :
         /\ RowsOf(ret.read)[i] # <<>>
         /\ toLowerCase(RowsOf(ret.read)[i][1]) = toLowerCase(url)

\* url is a bare locale root.
IsLocaleRoot(url) == \E l \in VALID_LOCALES : url = <<Slash>> \o l \o <<Slash>>

\* The url of the call is internal and well formed: it starts with "/", has
\* no newline or tab, is under /{valid locale}/docs/, is no redirect source
\* when checkResolve is set and resolves to a document when checkPath is
\* set.
InternalTarget ==
  /\ startsWith(ret.url, <<Slash>>)
  /\ \A i \in DOMAIN ret.url : ret.url[i] \notin {"\n", "\t"}
  /\ UnderLocaleDocs(ret.url)
  /\ ret.checkResolve => ~IsRedirectSource(ret.url)
  /\ ret.checkPath => resolveDocumentPath(ret.url, docs)

\* url contains "://" and is a URL of scheme https.
HttpsTarget(url) == includes(url, SchemeSeparator) /\ Protocol(url) = HttpsProtocol

\* C12: validateToURL returns exactly for a bare locale root, for a url with
\* "://" of scheme https, and for an internal well-formed url.
C12_ValidateToCases ==
  (ret.op = "validateToURL") =>
    (~ret.threw <=>
       (IsLocaleRoot(ret.url) \/ HttpsTarget(ret.url) \/ InternalTarget))

\* validateToURL(url, true, true) threw for the url of a document that is
\* no redirect source: its resolve loaded a table with a from that resolves
\* to a document.
C12_Witness ==
  /\ ret.op = "validateToURL" /\ ret.threw
  /\ ret.url = UrlC /\ ret.checkResolve /\ ret.checkPath
  /\ InternalTarget
  /\ ret.cache = <<>>
  /\ \E i \in DOMAIN RowsOf(ret.read) : FromExists(RowsOf(ret.read)[i], docs)

\* C13: a pair list that passes validatePairs, written by save and, once
\* the write has finished, read back by loadPairsFromFile, comes back as the
\* same pairs in the same order.
C13_RoundTrip ==
  (/\ pRet.op = "loadPairsFromFile" /\ pRet.written
   /\ validatePairs(pCall.pairs, TRUE, docs)) =>
    (~pRet.threw /\ pRet.pairs = pCall.pairs)

\* one valid pair whose to ends in a space was saved and, the write
\* finished, read back without the space
C13_Witness ==
  /\ pRet.op = "loadPairsFromFile" /\ pRet.written /\ ~pRet.threw
  /\ pRet.read = TableText(pCall.pairs)
  /\ validatePairs(pCall.pairs, TRUE, docs)
  /\ Len(pCall.pairs) = 1
  /\ pRet.pairs = << <<pCall.pairs[1][1], trimEnd(pCall.pairs[1][2])>> >>
  /\ pRet.pairs # pCall.pairs

\* The old pair's from is, case-insensitively, the to of no update pair.
NoUpdateTarget(oldPair, updatePairs) ==
  \A j \in DOMAIN updatePairs :
    toLowerCase(oldPair[1]) # toLowerCase(updatePairs[j][2])

\* C14: removeConflictingOldRedirects returns exactly the old pairs whose
\* from is the to of no update pair, compared case-insensitively, in their
\* original order.
C14_ConflictRemoval ==
  (pRet.op = "removeConflicting") =>
    LET old  == pCall.oldPairs
        kept == {i \in DOMAIN old : NoUpdateTarget(old[i], pCall.updatePairs)}
    IN  /\ Len(pRet.pairs) = Cardinality(kept)
        /\ \A i \in kept : pRet.pairs[Cardinality({j \in kept : j <= i})] = old[i]

\* of two old pairs the first was removed, its from differing from the
\* update's to in case only, and the second kept
C14_Witness ==
  /\ pRet.op = "removeConflicting"
  /\ Len(pCall.oldPairs) = 2
  /\ Len(pCall.updatePairs) = 1
  /\ pCall.oldPairs[1][1] # pCall.updatePairs[1][2]
  /\ pRet.pairs = <<pCall.oldPairs[2]>>

(***************************************************************************)
(* Further properties of shortCuts                                         *)
(***************************************************************************)

\* Two pairs have case-insensitively equal sources and different targets.
HasCollision(lp) ==
  \E i, j \in DOMAIN lp : lp[i][1] = lp[j][1] /\ lp[i][2] # lp[j][2]

\* C15: given two pairs with case-insensitively equal sources and
\* different targets, shortCuts rejects the list: it does not return pairs.
C15_CollisionRejected ==
  (fPc = "flattened" /\ HasCollision(Lowered(fIn))) => fOut.threw

\* shortCuts returned A -> C alone for A -> B, A -> C
C15_Witness ==
  /\ fPc = "flattened" /\ ~fOut.threw
  /\ fIn = <<<<UrlA, UrlB>>, <<UrlA, UrlC>>>>
  /\ fOut.pairs = <<<<UrlA, UrlC>>>>

\* The URLs of a pair list in reading order: from, to, from, to, ...
UrlsInOrder(pairs) ==
  [k \in 1..(2 * Len(pairs)) |-> pairs[(k + 1) \div 2][IF k % 2 = 1 THEN 1 ELSE 2]]

\* The spelling of the first URL of the list that is case-insensitively
\* equal to url.
FirstSpelling(pairs, url) ==
  LET urls  == UrlsInOrder(pairs)
      first == CHOOSE k \in DOMAIN urls :
                 /\ toLowerCase(urls[k]) = toLowerCase(url)
                 /\ \A j \in 1..(k - 1) : toLowerCase(urls[j]) # toLowerCase(url)
  IN  urls[first]

\* C16: every URL of the output of shortCuts is spelled as its first
\* occurrence in the input, in either role.
C16_FirstCasing ==
  (fPc = "flattened" /\ ~fOut.threw) =>
    \A i \in DOMAIN fOut.pairs : \A r \in 1..2 :
      fOut.pairs[i][r] = FirstSpelling(fIn, fOut.pairs[i][r])

\* shortCuts returned A -> C for a -> C, A -> C, whose first source is
\* spelled a
C16_Witness ==
  /\ fPc = "flattened" /\ ~fOut.threw
  /\ fIn = <<<<UrlLa, UrlC>>, <<UrlA, UrlC>>>>
  /\ fOut.pairs = <<<<UrlA, UrlC>>>>

(***************************************************************************)
(* Further properties of the API                                           *)
(***************************************************************************)

\* C17: of resolve calls that follow one another without a load call
\* between them, only the first loads the persisted tables.
C17_LoadedOnce ==
  (ret.op = "resolve" /\ ret.prev = "resolve") => ~ret.loaded

\* a resolve that followed a resolve read the table again, a table
\* without rows
C17_Witness ==
  /\ ret.op = "resolve" /\ ret.prev = "resolve"
  /\ ret.loaded /\ ~ret.threw
  /\ ret.read = HeaderLine

\* The last call is add without fix of the one, accepted update X -> Y on
\* a table whose only row is Z -> X, Z being neither Y nor a document.
MovedTarget ==
  /\ ret.op = "add" /\ ~ret.fix /\ ret.accepted
  /\ Len(ret.update) = 1
  /\ LET rows == RowsOf(ret.read)
     IN  /\ Len(rows) = 1
         /\ Len(rows[1]) = 2
         /\ Stale(rows[1], ret.update[1])
         /\ ~resolveDocumentPath(rows[1][1], docs)

\* C18: add without fix of the valid update X -> Y on a table that holds
\* Z -> X succeeds and persists Z -> Y and X -> Y (URLs compared without
\* regard to case).
C18_ChainShortened ==
  MovedTarget =>
    /\ ~ret.threw
    /\ Range(Lowered(ret.pairs)) =
         Range(Lowered(<< <<RowsOf(ret.read)[1][1], ret.update[1][2]>>,
                          <<ret.update[1][1], ret.update[1][2]>> >>))

\* add without fix of B -> C threw on the table A -> B
C18_Witness ==
  /\ MovedTarget /\ ret.threw
  /\ RowsOf(ret.read) = <<<<UrlA, UrlB>>>>
  /\ ret.update = <<<<UrlB, UrlC>>>>

\* add has returned and no stream has opened its file yet: the state in
\* which the caller makes its next call.
JustAdded ==
  /\ AddReturned /\ ~crashed
  /\ streams # <<>>
  /\ \A i \in DOMAIN streams : ~streams[i].open
  /\ FolderExists(streams[Len(streams)].folder)

\* C19: when add has returned, and before any work of the file streams,
\* the file holds the table add returned, so that the next call reads it.
C19_WriteVisible ==
  JustAdded => file = TableText(ret.pairs)

\* Two adds have returned, A -> C and then B -> C; the second read the file
\* the first had found, and returned a table without A -> C.
C19_Witness ==
  /\ JustAdded
  /\ Len(streams) = 2
  /\ streams[1].data = TableText(<<<<UrlA, UrlC>>>>)
  /\ ret.read = file
  /\ ret.pairs = <<<<UrlB, UrlC>>>>
  /\ file # TableText(ret.pairs)

\* C20: every add writes into the folder it read the table from, the
\* lowercased locale's, whatever the spelling of its locale argument, and the
\* write reaches that file: no stream is opened on another folder and none
\* fails to open.
C20_SameFile ==
  /\ ~crashed
  /\ \A i \in DOMAIN streams : streams[i].folder = EnUsLower

\* The one add of the run returned, its stream failed to open and the file
\* the add had read is as it was, without the add's table.
C20_Witness ==
  /\ AddReturned /\ nOps = 1
  /\ crashed
  /\ file = ret.read
  /\ file # TableText(ret.pairs)

====
